---- MODULE Spec2Model ----
(***************************************************************************)
(* The subscription / entitlement / transaction core of the sports academy *)
(* backend: the Mongoose models subscriptionModel.js, transactionModel.js, *)
(* subscriptionPlanModel.js and the request handlers of the subscription   *)
(* and student controllers that write them.                                *)
(*                                                                         *)
(* The three collections are functions from document ids to documents.     *)
(* A request handler is a sequence of steps, one per await that touches    *)
(* the store: the synchronous code that follows an await runs in the same  *)
(* step, because it reads only the in-memory document of the request.      *)
(* Every request runs in one of the request slots Procs, so requests       *)
(* interleave at their awaits exactly as the Node event loop lets them.    *)
(***************************************************************************)
EXTENDS Integers, FiniteSets, Sequences, TLC

\* ------------------------------------------------------------------ bounds
MaxTxns == 3
MaxSessions == 2
MaxPrice == 2
MaxTime == 1
NumProcs == 2
MaxRand == 3
MaxReads == 2
MaxAttendance == 2

\* Every handler addresses one plan and one subscription by id, and no handler
\* reads a second one: the model holds one of each.
PlanIds == {1}
PlanSlots == {1, 2}
SubIds == {1}
TxnIds == 1..MaxTxns
Procs == 1..NumProcs

\* ------------------------------------------------------------ schema enums
\* A nullable number of a schema is <<>> for null and <<n>> for the number n.
Null == <<>>

Num(n) == <<n>>

Val(v) == v[1]

SubscriptionStatuses == {"active", "expired", "cancelled", "pending"}

TransactionTypes == {"payment", "refund", "adjustment"}

TransactionStatuses == {"pending", "completed", "failed", "refunded", "disputed"}

NoDoc == [exists |-> FALSE]

\* A document that was stored and removed: its id is not given out again.
RemovedDoc == [exists |-> FALSE, removed |-> TRUE]

VARIABLES
    plans,      \* SubscriptionPlan collection: PlanSlots -> document or NoDoc
    subs,       \* Subscription collection: SubIds -> document or NoDoc
    txns,       \* Transaction collection: TxnIds -> document or NoDoc
    now,        \* the clock read by new Date() / Date.now()
    pc,         \* where each request slot stands in its handler
    loc,        \* the in-memory documents and arguments of each request
    last,       \* the step taken last and what it returned to its caller
    allotted,   \* per subscription: remainingSessions as last set explicitly
    granted,    \* per subscription: deductSession successes since then
    profile,    \* the student's StudentProfile document, or NoDoc
    attendance  \* Attendance collection of the student: the statuses saved

vars == <<plans, subs, txns, now, pc, loc, last, allotted, granted, profile, attendance>>

\* --------------------------------------------------------------- helpers
Min(S) == CHOOSE x \in S : \A y \in S : x <= y

FreePlanIds == {i \in PlanSlots : plans[i] = NoDoc}
FreeSubIds == {i \in SubIds : subs[i] = NoDoc}
FreeTxnIds == {i \in TxnIds : ~txns[i].exists}

\* The in-memory state of a request: the documents it loaded, as loaded.
NoLoc == [sub |-> 0, status |-> "none", live |-> FALSE, price |-> 0, type |-> "none",
          orig |-> 0, amount |-> 0, rem |-> Null, row |-> 0,
          plan |-> 0, startDate |-> Null, endDate |-> Null, evals |-> 0,
          invoiceId |-> Null, invoiceUrl |-> Null, stats |-> Null]

\* What the last step did: the handler step, whether the handler returned in it
\* (done) and with success (ok) or which error (err), the documents it was
\* about (plan, sub, txn, orig), its argument (arg), what its in-memory document
\* held (pre, status, live, startDate, endDate) when the step began, and the
\* transactionId (key) a create step presented to the store.
NoLast == [act |-> "none", done |-> FALSE, ok |-> FALSE, err |-> "none",
           sub |-> 0, txn |-> 0, orig |-> 0, arg |-> Null, pre |-> Null,
           status |-> "none", live |-> FALSE, type |-> "none",
           plan |-> 0, key |-> Null, startDate |-> Null, endDate |-> Null,
           invoiceId |-> Null, invoiceUrl |-> Null, body |-> Null, code |-> Null,
           valid |-> FALSE, result |-> Null]

Step(act) == [NoLast EXCEPT !.act = act]

Idle(p) == pc[p] = "idle"

\* A request that arrives takes the first free slot (the slots are
\* interchangeable).
Free(p) == Idle(p) /\ \A q \in Procs : Idle(q) => p <= q

AllIdle == \A p \in Procs : Idle(p)

\* ------------------------------------------------------------- documents
\* subscriptionPlanSchema: the paths the subscription core reads.
PlanDoc(price, maxSessions, duration) ==
    [exists |-> TRUE, price |-> price, maxSessions |-> maxSessions,
     duration |-> duration,
     name |-> <<"basic">>, sportCategories |-> <<Num(1)>>, discounts |-> <<>>]

\* paymentStatus: { default: 'pending' }
DefaultPaymentStatus == "pending"

\* amountPaid is required and comes from the request body: the one value the
\* bodies carry here.
AmountPaidInput == Num(MaxPrice)

\* subscriptionSchema: the paths the subscription core reads and writes.
SubDoc(plan, status, remainingSessions, startDate, endDate) ==
    [exists |-> TRUE, plan |-> plan, status |-> status,
     remainingSessions |-> remainingSessions,
     startDate |-> startDate, endDate |-> endDate,
     paymentStatus |-> DefaultPaymentStatus, amountPaid |-> AmountPaidInput]

\* transactionSchema: the paths the subscription core reads and writes.
TxnDoc(subscription, transactionId, type, amount, status, refundedTransaction) ==
    [exists |-> TRUE, subscription |-> subscription, transactionId |-> transactionId,
     type |-> type, amount |-> amount, status |-> status,
     refundedTransaction |-> refundedTransaction,
     invoiceId |-> Null, invoiceUrl |-> Null]

Init ==
    /\ plans = [i \in PlanSlots |-> NoDoc]
    /\ subs = [i \in SubIds |-> NoDoc]
    /\ txns = [i \in TxnIds |-> NoDoc]
    /\ now = 0
    /\ pc = [p \in Procs |-> "idle"]
    /\ loc = [p \in Procs |-> NoLoc]
    /\ last = NoLast
    /\ allotted = [i \in SubIds |-> Null]
    /\ granted = [i \in SubIds |-> 0]
    /\ profile = NoDoc
    /\ attendance = <<>>

\* ---------------------------------------------------------- plan catalog
\* The clock counts whole days, so the plans created here last a number of
\* days or weeks (months and years advance calendar fields of a date).
DurationInputs == {[value |-> 1, unit |-> "days"]}

MaxSessionsInputs == {Null, Num(MaxSessions)}

\* exports.createPlan with a well-formed body, for the first plan of the
\* catalog: SubscriptionPlan.create(req.body).
CreatePlan(price, maxSessions, duration) ==
    /\ FreePlanIds = PlanSlots
    /\ plans' = [plans EXCEPT ![Min(FreePlanIds)] = PlanDoc(price, maxSessions, duration)]
    /\ last' = [Step("createPlan") EXCEPT !.done = TRUE, !.ok = TRUE]
    /\ UNCHANGED <<subs, txns, now, pc, loc, allotted, granted, profile, attendance>>

\* A request body of exports.createPlan: the paths the schema validates.
\* amount and value are Null when the body leaves them out; sportCategories
\* and discounts left out are cast to empty arrays.
PlanBody(name, amount, value, sportCategories, discounts) ==
    [name |-> name, amount |-> amount, maxSessions |-> Null,
     duration |-> [value |-> value, unit |-> "days"],
     sportCategories |-> sportCategories, discounts |-> discounts]

\* The validators of subscriptionPlanSchema: name required; duration.value
\* required, min 1; price.amount required, min 0; in sportCategories
\* `required` is declared on the element, so it rejects a null element and
\* has nothing to check in an empty array; percentage of a discount, when
\* given, min 0 and max 100.
PlanValidation(body) ==
    /\ body.name # Null
    /\ body.duration.value # Null /\ Val(body.duration.value) >= 1
    /\ body.amount # Null /\ Val(body.amount) >= 0
    /\ \A i \in 1..Len(body.sportCategories) : body.sportCategories[i] # Null
    /\ \A i \in 1..Len(body.discounts) :
           body.discounts[i].percentage # Null =>
               /\ Val(body.discounts[i].percentage) >= 0
               /\ Val(body.discounts[i].percentage) <= 100

\* name: { unique: true }: the unique index on name.
NameTaken(name) == \E i \in PlanSlots : plans[i].exists /\ plans[i].name = <<name>>

\* The document SubscriptionPlan.create stores for a valid body.
PlanDocOf(body) ==
    [exists |-> TRUE, price |-> Val(body.amount), maxSessions |-> body.maxSessions,
     duration |-> [value |-> Val(body.duration.value), unit |-> body.duration.unit],
     name |-> body.name, sportCategories |-> body.sportCategories,
     discounts |-> body.discounts]

\* exports.createPlan on any body: validation, then the insert, which the
\* unique index on name rejects (E11000) when the name is stored already;
\* every error goes to next(error) and nothing is stored.
CreatePlanBody(body) ==
    /\ LET ret == [Step("createPlan") EXCEPT !.done = TRUE, !.body = <<body>>]
       IN IF ~PlanValidation(body)
          THEN /\ last' = [ret EXCEPT !.err = "ValidationError"]
               /\ UNCHANGED plans
          ELSE IF NameTaken(Val(body.name))
          THEN /\ last' = [ret EXCEPT !.err = "DuplicateKey"]
               /\ UNCHANGED plans
          ELSE /\ FreePlanIds # {}
               /\ plans' = [plans EXCEPT ![Min(FreePlanIds)] = PlanDocOf(body)]
               /\ last' = [ret EXCEPT !.ok = TRUE, !.plan = Min(FreePlanIds)]
    /\ UNCHANGED <<subs, txns, now, pc, loc, allotted, granted, profile, attendance>>

\* if (plan.maxSessions): null and 0 are falsy.
Truthy(v) == v # Null /\ Val(v) # 0

\* ------------------------------------------------------------- discounts
\* An element of subscriptionPlanSchema.discounts; currentUses defaults to 0.
DiscountDoc(code, percentage, validUntil, maxUses, currentUses) ==
    [code |-> code, percentage |-> percentage, validUntil |-> validUntil,
     maxUses |-> maxUses, currentUses |-> currentUses]

\* this.discounts.find(d => d.code === code): the index of the first element
\* with that code, 0 for undefined.
FindDiscount(discounts, code) ==
    LET hits == {i \in 1..Len(discounts) : discounts[i].code = code}
    IN IF hits = {} THEN 0 ELSE Min(hits)

\* methods.isDiscountValid at clock reading t. A Date is truthy whatever
\* its value; the number maxUses is truthy unless it is 0.
IsDiscountValid(plan, code, t) ==
    IF Len(plan.discounts) = 0 THEN FALSE
    ELSE LET i == FindDiscount(plan.discounts, code)
         IN IF i = 0 THEN FALSE
            ELSE LET discount == plan.discounts[i]
                 IN IF discount.validUntil # Null /\ t > Val(discount.validUntil)
                    THEN FALSE
                    ELSE IF Truthy(discount.maxUses)
                              /\ discount.currentUses >= Val(discount.maxUses)
                    THEN FALSE
                    ELSE TRUE

\* A variant of ToFixed2 that rounds to whole units.
ToFixed0(num, den) == 100 * ((2 * num + den) \div (2 * den))

\* parseFloat(x.toFixed(2)) for x = num/den >= 0: x rounded to the nearest
\* hundredth, as a count of hundredths.
ToFixed2(num, den) == (200 * num + den) \div (2 * den)

\* methods.getDiscountedPrice at clock reading t, as a count of hundredths:
\* price.amount when the code is not valid, else price.amount less
\* (percentage / 100) * price.amount, through toFixed(2).
GetDiscountedPrice(plan, code, t) ==
    IF ~IsDiscountValid(plan, code, t) THEN 100 * plan.price
    ELSE LET discount == plan.discounts[FindDiscount(plan.discounts, code)]
         IN ToFixed2(100 * plan.price - Val(discount.percentage) * plan.price, 100)

\* A caller evaluates plan.isDiscountValid(code) on a stored plan.
CheckDiscount(planId, code) ==
    /\ plans[planId].exists
    /\ last' = [Step("isDiscountValid") EXCEPT
                   !.done = TRUE, !.ok = TRUE, !.plan = planId, !.code = <<code>>,
                   !.valid = IsDiscountValid(plans[planId], code, now)]
    /\ UNCHANGED <<plans, subs, txns, now, pc, loc, allotted, granted, profile, attendance>>

\* A caller evaluates plan.getDiscountedPrice(code) on a stored plan.
QuoteDiscount(planId, code) ==
    /\ plans[planId].exists
    /\ last' = [Step("getDiscountedPrice") EXCEPT
                   !.done = TRUE, !.ok = TRUE, !.plan = planId, !.code = <<code>>,
                   !.result = Num(GetDiscountedPrice(plans[planId], code, now))]
    /\ UNCHANGED <<plans, subs, txns, now, pc, loc, allotted, granted, profile, attendance>>

\* countDocuments({plan, status: 'active'})
ActiveSubscriptions(planId) ==
    Cardinality({s \in SubIds : subs[s].exists /\ subs[s].plan = planId
                                  /\ subs[s].status = "active"})

\* plan.remove(): Document.prototype.remove deletes the document up to
\* Mongoose 6; from Mongoose 7 on documents have no such method and the call
\* throws a TypeError. package.json asks for mongoose ^8.0.3.
RemoveOutcomes == {"removed", "TypeError"}

\* exports.deletePlan, first await: SubscriptionPlan.findById, 404 when there
\* is no such plan.
DeletePlanLoad(p, planId) ==
    /\ Free(p)
    /\ IF ~plans[planId].exists
       THEN /\ last' = [Step("deletePlan") EXCEPT
                           !.done = TRUE, !.err = "NotFound", !.plan = planId]
            /\ UNCHANGED <<pc, loc>>
       ELSE /\ pc' = [pc EXCEPT ![p] = "delete_count"]
            /\ loc' = [loc EXCEPT ![p] = [NoLoc EXCEPT !.plan = planId]]
            /\ last' = [Step("deletePlan") EXCEPT !.plan = planId]
    /\ UNCHANGED <<plans, subs, txns, now, allotted, granted, profile, attendance>>

\* Second await: the count of active subscriptions of the plan, 400 when there
\* are any.
DeletePlanCount(p) ==
    /\ pc[p] = "delete_count"
    /\ LET planId == loc[p].plan
           activeSubscriptions == ActiveSubscriptions(planId)
           ret == [Step("deletePlan") EXCEPT
                      !.plan = planId, !.pre = Num(activeSubscriptions)]
       IN IF activeSubscriptions > 0
          THEN /\ last' = [ret EXCEPT !.done = TRUE, !.err = "Conflict"]
               /\ pc' = [pc EXCEPT ![p] = "idle"]
               /\ loc' = [loc EXCEPT ![p] = NoLoc]
          ELSE /\ last' = ret
               /\ pc' = [pc EXCEPT ![p] = "delete_remove"]
               /\ UNCHANGED loc
    /\ UNCHANGED <<plans, subs, txns, now, allotted, granted, profile, attendance>>

\* Third await: plan.remove(), then 204; a throw goes to the catch.
DeletePlanRemove(p, outcome) ==
    /\ pc[p] = "delete_remove"
    /\ LET planId == loc[p].plan
           ret == [Step("deletePlan") EXCEPT
                      !.done = TRUE, !.plan = planId, !.pre = Num(0)]
       IN IF outcome = "removed"
          THEN /\ plans' = [plans EXCEPT ![planId] = RemovedDoc]
               /\ last' = [ret EXCEPT !.ok = TRUE]
          ELSE /\ last' = [ret EXCEPT !.err = "TypeError"]
               /\ UNCHANGED plans
    /\ pc' = [pc EXCEPT ![p] = "idle"]
    /\ loc' = [loc EXCEPT ![p] = NoLoc]
    /\ UNCHANGED <<subs, txns, now, allotted, granted, profile, attendance>>

\* ------------------------------------------------- subscription lifecycle
\* plan.durationType in exports.createSubscription: the plan schema declares
\* duration {value, unit} and no durationType path, so the read is undefined.
PlanDurationType(plan) == "undefined"

\* new Date(NaN): a date object holding no time.
InvalidDate == <<"NaN">>

\* exports.createSubscription, "Calculate end date based on plan duration":
\* the three branches compare plan.durationType; with none taken endDate stays
\* new Date(startDate). A branch taken would add the duration object to a
\* number, which is an invalid date.
ControllerEndDate(plan, startDate) ==
    IF PlanDurationType(plan) \in {"days", "months", "years"}
    THEN InvalidDate
    ELSE Num(startDate)

\* The pre('save') hook's switch on plan.duration.unit.
HookEndDate(plan, startDate) ==
    CASE plan.duration.unit = "days" -> startDate + plan.duration.value
      [] plan.duration.unit = "weeks" -> startDate + (plan.duration.value * 7)
      [] OTHER -> startDate

\* subscriptionSchema.pre('save') on a new document: only when the document
\* carries no endDate does it derive endDate and remainingSessions from the plan.
PreSaveSubscription(doc, plan) ==
    IF doc.endDate = Null
    THEN [doc EXCEPT !.endDate = Num(HookEndDate(plan, Val(doc.startDate))),
                     !.remainingSessions =
                         IF Truthy(plan.maxSessions) THEN plan.maxSessions ELSE @]
    ELSE doc

\* The status exports.createSubscription writes into req.body before create.
CreatedStatus == "active"

RemainingInputs == {Null} \cup {Num(n) : n \in 0..MaxSessions}

StartInputs == {Null}

\* exports.createSubscription: the plan is looked up (404 when missing), the
\* body gets student, endDate and status, and Subscription.create(req.body)
\* runs the schema defaults and the pre-save hook. bodyStart and bodyRem are
\* req.body.startDate and req.body.remainingSessions (Null when absent).
CreateSubscription(planId, bodyStart, bodyRem) ==
    IF ~plans[planId].exists
    THEN /\ last' = [Step("createSubscription") EXCEPT !.done = TRUE, !.err = "NotFound"]
         /\ UNCHANGED <<plans, subs, txns, now, pc, loc, allotted, granted, profile, attendance>>
    ELSE /\ FreeSubIds # {}
         /\ LET id == Min(FreeSubIds)
                startDate == IF bodyStart = Null THEN now ELSE Val(bodyStart)
                endDate == ControllerEndDate(plans[planId], startDate)
                body == SubDoc(planId, CreatedStatus, bodyRem, Num(startDate), endDate)
                doc == PreSaveSubscription(body, plans[planId])
            IN /\ subs' = [subs EXCEPT ![id] = doc]
               /\ allotted' = [allotted EXCEPT ![id] = doc.remainingSessions]
               /\ granted' = [granted EXCEPT ![id] = 0]
               /\ last' = [Step("createSubscription") EXCEPT
                              !.done = TRUE, !.ok = TRUE, !.sub = id,
                              !.plan = planId, !.arg = bodyRem]
         /\ UNCHANGED <<plans, txns, now, pc, loc, profile, attendance>>

\* The request bodies of exports.updateSubscription tried here: one path each.
SubscriptionPatches ==
    [field : {"status"}, value : SubscriptionStatuses]
        \cup [field : {"remainingSessions"}, value : RemainingInputs]

\* canBeRenewed's "30 days before expiry".
RenewalWindow == 30

\* Bodies that move endDate: to the day the renewal window opens for a
\* subscription read at day 0, and to a day more than a window in the past.
EndDateInputs == {Num(RenewalWindow), Num(0 - (RenewalWindow + 1))}

DatePatches == [field : {"endDate"}, value : EndDateInputs]

\* exports.updateSubscription: Subscription.findByIdAndUpdate(id, req.body,
\* {runValidators}) writes whatever paths the body names.
UpdateSubscription(s, patch) ==
    IF ~subs[s].exists
    THEN /\ last' = [Step("updateSubscription") EXCEPT !.done = TRUE, !.err = "NotFound"]
         /\ UNCHANGED <<plans, subs, txns, now, pc, loc, allotted, granted, profile, attendance>>
    ELSE /\ subs' = [subs EXCEPT ![s] =
                        CASE patch.field = "status" -> [@ EXCEPT !.status = patch.value]
                          [] patch.field = "endDate" -> [@ EXCEPT !.endDate = patch.value]
                          [] OTHER -> [@ EXCEPT !.remainingSessions = patch.value]]
         /\ allotted' = IF patch.field = "remainingSessions"
                        THEN [allotted EXCEPT ![s] = patch.value] ELSE allotted
         /\ granted' = IF patch.field = "remainingSessions"
                       THEN [granted EXCEPT ![s] = 0] ELSE granted
         /\ last' = [Step("updateSubscription") EXCEPT
                        !.done = TRUE, !.ok = TRUE, !.sub = s]
         /\ UNCHANGED <<plans, txns, now, pc, loc, profile, attendance>>

\* Time passes between requests.
Tick ==
    /\ now < MaxTime
    /\ now' = now + 1
    /\ last' = Step("tick")
    /\ UNCHANGED <<plans, subs, txns, pc, loc, allotted, granted, profile, attendance>>

\* A variant of IsActive that does not look at endDate.
IsActiveIgnoringEnd(doc, t) ==
    /\ doc.status = "active"
    /\ t >= Val(doc.startDate)
    /\ (doc.remainingSessions = Null \/ Val(doc.remainingSessions) > 0)

\* The isActive virtual of a subscription document read at time t.
IsActive(doc, t) ==
    /\ doc.status = "active"
    /\ t >= Val(doc.startDate)
    /\ t <= Val(doc.endDate)
    /\ (doc.remainingSessions = Null \/ Val(doc.remainingSessions) > 0)

\* The daysRemaining virtual, the clock counting whole days.
DaysRemaining(doc, t) ==
    IF doc.status # "active" THEN 0
    ELSE IF t > Val(doc.endDate) THEN 0
    ELSE Val(doc.endDate) - t

\* methods.canBeCancelled.
CanBeCancelled(doc) == doc.status = "active"

\* this.endDate.setDate(this.endDate.getDate() - 30): moves the document's
\* endDate back by the window and returns the new time.
RenewalThreshold(endDate) == endDate - RenewalWindow

\* methods.canBeRenewed: && evaluates the setDate call only when the status
\* test passed.
CanBeRenewed(doc, t) ==
    /\ doc.status \in {"active", "expired"}
    /\ t > RenewalThreshold(Val(doc.endDate))

\* The document a call of canBeRenewed leaves in memory.
AfterCanBeRenewed(doc) ==
    IF doc.status \in {"active", "expired"}
    THEN [doc EXCEPT !.endDate = Num(RenewalThreshold(Val(@)))]
    ELSE doc

\* ------------------------------------------------------------------ reads
ReadMethods == {"isActive", "daysRemaining", "canBeCancelled", "canBeRenewed"}

\* The subscription document a request holds in memory.
MemDoc(l) == SubDoc(l.plan, l.status, l.rem, l.startDate, l.endDate)

\* A request loads a subscription (Subscription.findById) to read it.
ReadLoad(p, s) ==
    /\ Free(p)
    /\ IF ~subs[s].exists
       THEN /\ last' = [Step("findById") EXCEPT !.done = TRUE, !.err = "NotFound", !.sub = s]
            /\ UNCHANGED <<pc, loc>>
       ELSE /\ pc' = [pc EXCEPT ![p] = "read"]
            /\ loc' = [loc EXCEPT ![p] = [NoLoc EXCEPT
                           !.sub = s, !.plan = subs[s].plan, !.status = subs[s].status,
                           !.rem = subs[s].remainingSessions,
                           !.startDate = subs[s].startDate, !.endDate = subs[s].endDate]]
            /\ last' = [Step("findById") EXCEPT !.sub = s]
    /\ UNCHANGED <<plans, subs, txns, now, allotted, granted, profile, attendance>>

\* The request evaluates a virtual or a method on the document it holds: ok is
\* a boolean result, arg a numeric one. Only canBeRenewed assigns to the
\* document.
ReadEval(p, m) ==
    /\ pc[p] = "read"
    /\ loc[p].evals < MaxReads
    /\ LET doc == MemDoc(loc[p])
           after == IF m = "canBeRenewed" THEN AfterCanBeRenewed(doc) ELSE doc
           ret == [Step(m) EXCEPT
                      !.sub = loc[p].sub, !.status = doc.status,
                      !.pre = doc.remainingSessions,
                      !.startDate = doc.startDate, !.endDate = doc.endDate]
       IN /\ loc' = [loc EXCEPT ![p].endDate = after.endDate, ![p].evals = @ + 1]
          /\ last' = CASE m = "isActive" -> [ret EXCEPT !.ok = IsActive(doc, now)]
                       [] m = "daysRemaining" ->
                              [ret EXCEPT !.arg = Num(DaysRemaining(doc, now))]
                       [] m = "canBeCancelled" -> [ret EXCEPT !.ok = CanBeCancelled(doc)]
                       [] OTHER -> [ret EXCEPT !.ok = CanBeRenewed(doc, now)]
    /\ UNCHANGED <<plans, subs, txns, now, pc, allotted, granted, profile, attendance>>

\* The request responds and drops the document.
ReadDone(p) ==
    /\ pc[p] = "read"
    /\ pc' = [pc EXCEPT ![p] = "idle"]
    /\ loc' = [loc EXCEPT ![p] = NoLoc]
    /\ last' = [Step("respond") EXCEPT !.done = TRUE, !.ok = TRUE, !.sub = loc[p].sub]
    /\ UNCHANGED <<plans, subs, txns, now, allotted, granted, profile, attendance>>

\* ------------------------------------------------ entitlement consumption
\* A variant of DeductOutcome that treats an unlimited balance as used up.
DeductOutcomeNullExhausted(remainingSessions) ==
    CASE remainingSessions = Null -> "exhausted"
      [] remainingSessions # Null /\ Val(remainingSessions) <= 0 -> "exhausted"
      [] OTHER -> "decrement"

\* A variant of DeductOutcome that lets a balance of 0 through (< for <=).
DeductOutcomeOffByOne(remainingSessions) ==
    CASE remainingSessions = Null -> "unlimited"
      [] remainingSessions # Null /\ Val(remainingSessions) < 0 -> "exhausted"
      [] OTHER -> "decrement"

\* methods.deductSession up to its await, on the in-memory remainingSessions:
\* "unlimited" returns true, "exhausted" returns false, "decrement" goes on to
\* this.remainingSessions -= 1 and this.save().
DeductOutcome(remainingSessions) ==
    CASE remainingSessions = Null -> "unlimited"
      [] remainingSessions # Null /\ Val(remainingSessions) <= 0 -> "exhausted"
      [] OTHER -> "decrement"

\* this.remainingSessions -= 1
Decremented(remainingSessions) == Num(Val(remainingSessions) - 1)

\* A request loads the subscription (findById) and calls deductSession on the
\* document it got: the method checks and decrements that in-memory document.
DeductSessionLoad(p, s) ==
    /\ Free(p)
    /\ subs[s].exists
    /\ LET doc == subs[s]
           outcome == DeductOutcome(doc.remainingSessions)
           ret == [Step("deductSession") EXCEPT
                      !.sub = s, !.pre = doc.remainingSessions,
                      !.status = doc.status, !.live = IsActive(doc, now)]
       IN IF outcome = "decrement"
          THEN /\ pc' = [pc EXCEPT ![p] = "deduct_save"]
               /\ loc' = [loc EXCEPT ![p] = [NoLoc EXCEPT
                              !.sub = s, !.status = doc.status,
                              !.live = IsActive(doc, now),
                              !.rem = Decremented(doc.remainingSessions)]]
               /\ last' = ret
          ELSE /\ last' = [ret EXCEPT !.done = TRUE, !.ok = (outcome = "unlimited")]
               /\ UNCHANGED <<pc, loc>>
    /\ UNCHANGED <<plans, subs, txns, now, allotted, granted, profile, attendance>>

\* await this.save(): the modified path remainingSessions is written as the
\* in-memory document holds it; then the method returns true.
DeductSessionSave(p) ==
    /\ pc[p] = "deduct_save"
    /\ LET s == loc[p].sub
       IN /\ subs' = [subs EXCEPT ![s].remainingSessions = loc[p].rem]
          /\ granted' = [granted EXCEPT ![s] = @ + 1]
          /\ last' = [Step("deductSession") EXCEPT
                         !.done = TRUE, !.ok = TRUE, !.sub = s,
                         !.pre = Num(Val(loc[p].rem) + 1),
                         !.status = loc[p].status, !.live = loc[p].live]
    /\ pc' = [pc EXCEPT ![p] = "idle"]
    /\ loc' = [loc EXCEPT ![p] = NoLoc]
    /\ UNCHANGED <<plans, txns, now, allotted, profile, attendance>>

\* ------------------------------------------------------ transaction ledger
\* Schema validation of a new transaction (student, type, paymentMethod, the
\* required paths, the cast of amount) lets the document through or rejects it.
CreateOutcomes == {"stored", "rejected"}

\* Math.floor(Math.random() * 10000)
Rands == 0..MaxRand

\* `TRX-${timestamp}-${randomNum}`: the text determines the two numbers and is
\* determined by them.
TransactionIdOf(timestamp, randomNum) == <<timestamp, randomNum>>

\* transactionSchema.pre('save'): a new document without a transactionId gets
\* a generated one.
PreSaveTransactionId(bodyId, timestamp, randomNum) ==
    IF bodyId = Null THEN TransactionIdOf(timestamp, randomNum) ELSE bodyId

\* The transactionIds that exist.
TransactionIds == {TransactionIdOf(t, r) : t \in 0..MaxTime, r \in Rands}

\* The transactionIds a caller sends in a body: none, or one of its own.
BodyIdInputs == {Null, TransactionIdOf(0, 0)}

\* transactionId {unique: true}: the index holds the key already.
Collides(key) == \E i \in TxnIds : txns[i].exists /\ txns[i].transactionId = key

\* The random numbers that give an id not yet stored (the least of them).
UnusedRands ==
    LET unused == {r \in Rands : ~Collides(TransactionIdOf(now, r))}
    IN IF unused = {} THEN {} ELSE {Min(unused)}

\* A variant of CreateOutcome without the unique index.
CreateOutcomeNoIndex(key, validation) ==
    IF validation = "rejected" THEN "rejected" ELSE "stored"

\* Transaction.create: validation first, then the insert, which the unique
\* index on transactionId refuses when the key is already stored.
CreateOutcome(key, validation) ==
    CASE validation = "rejected" -> "rejected"
      [] validation # "rejected" /\ Collides(key) -> "duplicate"
      [] OTHER -> "stored"

\* req.body.amount = subscription.plan.price
PaymentAmount(plan) == plan.price

\* req.body.status = 'completed'
PaymentStatus == "completed"

\* A variant of ActivationNeeded with the comparison inverted (=== for !==).
ActivationInverted(status) == status = "active"

\* if (subscription.status !== 'active')
ActivationNeeded(status) == status # "active"

\* exports.createTransaction, first await: Subscription.findById with the plan
\* populated; 404 when the subscription is missing. A plan that is gone
\* populates as null, and reading its price throws.
CreateTransactionLoad(p, s) ==
    /\ Free(p)
    /\ IF ~subs[s].exists \/ ~plans[subs[s].plan].exists
       THEN /\ last' = [Step("createTransaction") EXCEPT
                           !.done = TRUE, !.sub = s,
                           !.err = IF subs[s].exists THEN "TypeError" ELSE "NotFound"]
            /\ UNCHANGED <<pc, loc>>
       ELSE /\ pc' = [pc EXCEPT ![p] = "pay_create"]
            /\ loc' = [loc EXCEPT ![p] = [NoLoc EXCEPT
                           !.sub = s, !.status = subs[s].status,
                           !.price = PaymentAmount(plans[subs[s].plan])]]
            /\ last' = [Step("createTransaction") EXCEPT !.sub = s]
    /\ UNCHANGED <<plans, subs, txns, now, allotted, granted, profile, attendance>>

\* Second await: Transaction.create(req.body) with subscription, amount and
\* status set by the handler and the type the caller sent; bodyId is the
\* transactionId of the body (Null when absent) and randomNum the number the
\* pre-save hook draws. A rejection goes to the catch; a stored row is
\* followed by the status check on the in-memory subscription, which either
\* ends the request or goes on to save.
CreateTransactionCreate(p, type, bodyId, randomNum, validation) ==
    /\ pc[p] = "pay_create"
    /\ LET s == loc[p].sub
           key == PreSaveTransactionId(bodyId, now, randomNum)
           outcome == CreateOutcome(key, validation)
           ret == [Step("createTransaction") EXCEPT
                      !.sub = s, !.status = loc[p].status, !.type = type,
                      !.key = key]
       IN IF outcome # "stored"
          THEN /\ last' = [ret EXCEPT !.done = TRUE,
                              !.err = IF outcome = "duplicate" THEN "Duplicate"
                                      ELSE "Validation"]
               /\ pc' = [pc EXCEPT ![p] = "idle"]
               /\ loc' = [loc EXCEPT ![p] = NoLoc]
               /\ UNCHANGED txns
          ELSE /\ FreeTxnIds # {}
               /\ LET id == Min(FreeTxnIds)
                  IN /\ txns' = [txns EXCEPT ![id] =
                                    TxnDoc(s, key, type, loc[p].price, PaymentStatus, 0)]
                     /\ IF ActivationNeeded(loc[p].status)
                        THEN /\ pc' = [pc EXCEPT ![p] = "pay_save"]
                             /\ loc' = [loc EXCEPT ![p].row = id, ![p].type = type]
                             /\ last' = [ret EXCEPT !.txn = id]
                        ELSE /\ pc' = [pc EXCEPT ![p] = "idle"]
                             /\ loc' = [loc EXCEPT ![p] = NoLoc]
                             /\ last' = [ret EXCEPT !.done = TRUE, !.ok = TRUE, !.txn = id]
    /\ UNCHANGED <<plans, subs, now, allotted, granted, profile, attendance>>

\* Third await: subscription.status = 'active'; await subscription.save().
CreateTransactionSave(p) ==
    /\ pc[p] = "pay_save"
    /\ subs' = [subs EXCEPT ![loc[p].sub].status = "active"]
    /\ last' = [Step("createTransaction") EXCEPT
                   !.done = TRUE, !.ok = TRUE, !.sub = loc[p].sub,
                   !.txn = loc[p].row, !.status = loc[p].status, !.type = loc[p].type]
    /\ pc' = [pc EXCEPT ![p] = "idle"]
    /\ loc' = [loc EXCEPT ![p] = NoLoc]
    /\ UNCHANGED <<plans, txns, now, allotted, granted, profile, attendance>>

\* The save rejects (the store is unreachable): the handler goes to its catch
\* with the transaction row already stored.
CreateTransactionSaveFail(p) ==
    /\ pc[p] = "pay_save"
    /\ last' = [Step("createTransaction") EXCEPT
                   !.done = TRUE, !.err = "Storage", !.sub = loc[p].sub,
                   !.txn = loc[p].row, !.status = loc[p].status, !.type = loc[p].type]
    /\ pc' = [pc EXCEPT ![p] = "idle"]
    /\ loc' = [loc EXCEPT ![p] = NoLoc]
    /\ UNCHANGED <<plans, subs, txns, now, allotted, granted, profile, attendance>>

\* this.findOne({ transactionId }): the _id of the stored transaction with
\* that transactionId, 0 when there is none.
FindByTransactionId(key) ==
    IF \E i \in TxnIds : txns[i].exists /\ txns[i].transactionId = key
    THEN CHOOSE i \in TxnIds : txns[i].exists /\ txns[i].transactionId = key
    ELSE 0

\* const refundAmount = amount || originalTransaction.amount: an absent amount
\* and the amount 0 are both falsy.
RefundAmount(amount, originalAmount) ==
    IF amount = Null \/ Val(amount) = 0 THEN originalAmount ELSE Val(amount)

\* A variant of RefundError without the check of the refund amount.
RefundErrorNoAmountCheck(found, status, amount, originalAmount) ==
    CASE ~found -> "NotFound"
      [] found /\ status # "completed" -> "InvalidState"
      [] OTHER -> "none"

\* The three throws of processRefund before its first write, in order.
RefundError(found, status, amount, originalAmount) ==
    CASE ~found -> "NotFound"
      [] found /\ status # "completed" -> "InvalidState"
      [] found /\ status = "completed"
            /\ RefundAmount(amount, originalAmount) > originalAmount -> "Validation"
      [] OTHER -> "none"

RefundInputs == {Null} \cup {Num(n) : n \in 0..(MaxPrice + 1)}

\* statics.processRefund, first await: findOne and the three checks on the
\* document it returned.
ProcessRefundLoad(p, key, amount) ==
    /\ Free(p)
    /\ LET id == FindByTransactionId(key)
           found == id # 0
           status == IF found THEN txns[id].status ELSE "none"
           originalAmount == IF found THEN txns[id].amount ELSE 0
           err == RefundError(found, status, amount, originalAmount)
           ret == [Step("processRefund") EXCEPT !.orig = id, !.arg = amount]
       IN IF err # "none"
          THEN /\ last' = [ret EXCEPT !.done = TRUE, !.err = err]
               /\ UNCHANGED <<pc, loc>>
          ELSE /\ pc' = [pc EXCEPT ![p] = "refund_create"]
               /\ loc' = [loc EXCEPT ![p] = [NoLoc EXCEPT
                              !.orig = id, !.sub = txns[id].subscription,
                              !.amount = RefundAmount(amount, originalAmount),
                              !.rem = amount]]
               /\ last' = ret
    /\ UNCHANGED <<plans, subs, txns, now, allotted, granted, profile, attendance>>

\* Second await: this.create({... type: 'refund', amount: refundAmount,
\* status: 'completed', refundedTransaction: originalTransaction._id}).
RefundRow(key, subscription, amount, original) ==
    TxnDoc(subscription, key, "refund", amount, "completed", original)

\* The object passed to create names no transactionId: the pre-save hook
\* generates it from the clock and randomNum.
ProcessRefundCreate(p, randomNum, validation) ==
    /\ pc[p] = "refund_create"
    /\ LET key == PreSaveTransactionId(Null, now, randomNum)
           outcome == CreateOutcome(key, validation)
           ret == [Step("processRefund") EXCEPT
                      !.orig = loc[p].orig, !.arg = loc[p].rem, !.key = key]
       IN IF outcome # "stored"
          THEN /\ last' = [ret EXCEPT !.done = TRUE,
                              !.err = IF outcome = "duplicate" THEN "Duplicate"
                                      ELSE "Create"]
               /\ pc' = [pc EXCEPT ![p] = "idle"]
               /\ loc' = [loc EXCEPT ![p] = NoLoc]
               /\ UNCHANGED txns
          ELSE /\ FreeTxnIds # {}
               /\ LET id == Min(FreeTxnIds)
                  IN /\ txns' = [txns EXCEPT ![id] =
                                    RefundRow(key, loc[p].sub, loc[p].amount, loc[p].orig)]
                     /\ pc' = [pc EXCEPT ![p] = "refund_save"]
                     /\ loc' = [loc EXCEPT ![p].row = id]
                     /\ last' = [ret EXCEPT !.txn = id]
    /\ UNCHANGED <<plans, subs, now, allotted, granted, profile, attendance>>

\* A variant of ProcessRefundSave that also marks the subscription's payment
\* as refunded.
ProcessRefundSaveMarking(p) ==
    /\ pc[p] = "refund_save"
    /\ txns' = [txns EXCEPT ![loc[p].orig].status = "refunded"]
    /\ subs' = [subs EXCEPT ![txns[loc[p].orig].subscription].paymentStatus = "refunded"]
    /\ last' = [Step("processRefund") EXCEPT
                   !.done = TRUE, !.ok = TRUE, !.orig = loc[p].orig,
                   !.txn = loc[p].row, !.arg = loc[p].rem]
    /\ pc' = [pc EXCEPT ![p] = "idle"]
    /\ loc' = [loc EXCEPT ![p] = NoLoc]
    /\ UNCHANGED <<plans, now, allotted, granted, profile, attendance>>

\* Third await: originalTransaction.status = 'refunded'; save(); return the
\* refund row.
ProcessRefundSave(p) ==
    /\ pc[p] = "refund_save"
    /\ txns' = [txns EXCEPT ![loc[p].orig].status = "refunded"]
    /\ last' = [Step("processRefund") EXCEPT
                   !.done = TRUE, !.ok = TRUE, !.orig = loc[p].orig,
                   !.txn = loc[p].row, !.arg = loc[p].rem]
    /\ pc' = [pc EXCEPT ![p] = "idle"]
    /\ loc' = [loc EXCEPT ![p] = NoLoc]
    /\ UNCHANGED <<plans, subs, now, allotted, granted, profile, attendance>>

\* The save of the original rejects: processRefund rethrows with the refund
\* row already stored.
ProcessRefundSaveFail(p) ==
    /\ pc[p] = "refund_save"
    /\ last' = [Step("processRefund") EXCEPT
                   !.done = TRUE, !.err = "Storage", !.orig = loc[p].orig,
                   !.txn = loc[p].row, !.arg = loc[p].rem]
    /\ pc' = [pc EXCEPT ![p] = "idle"]
    /\ loc' = [loc EXCEPT ![p] = NoLoc]
    /\ UNCHANGED <<plans, subs, txns, now, allotted, granted, profile, attendance>>

\* ------------------------------------------------------------- invoices
\* A variant of InvoiceIdOf that does not carry the transactionId.
InvoiceIdOfConstant(transactionId) == <<"INV-">>

\* `INV-${transaction.transactionId}`
InvoiceIdOf(transactionId) == <<"INV-", transactionId>>

\* `/invoices/${transaction.invoiceId}`
InvoiceUrlOf(invoiceId) == <<"/invoices/", invoiceId>>

\* statics.generateInvoice, first await: findOne({ transactionId }), 'Transaction
\* not found' when there is none; then the two paths are set on the document
\* in memory.
GenerateInvoiceLoad(p, key) ==
    /\ Free(p)
    /\ LET t == FindByTransactionId(key)
       IN IF t = 0
          THEN /\ last' = [Step("generateInvoice") EXCEPT
                              !.done = TRUE, !.err = "NotFound", !.key = key]
               /\ UNCHANGED <<pc, loc>>
          ELSE LET invoiceId == InvoiceIdOf(txns[t].transactionId)
               IN /\ pc' = [pc EXCEPT ![p] = "invoice_save"]
                  /\ loc' = [loc EXCEPT ![p] =
                                 [NoLoc EXCEPT !.orig = t, !.invoiceId = invoiceId,
                                               !.invoiceUrl = InvoiceUrlOf(invoiceId)]]
                  /\ last' = [Step("generateInvoice") EXCEPT !.orig = t, !.key = key]
    /\ UNCHANGED <<plans, subs, txns, now, allotted, granted, profile, attendance>>

\* Second await: transaction.save() writes the modified paths invoiceId and
\* invoiceUrl; the method returns the two values.
GenerateInvoiceSave(p) ==
    /\ pc[p] = "invoice_save"
    /\ txns' = [txns EXCEPT ![loc[p].orig].invoiceId = loc[p].invoiceId,
                            ![loc[p].orig].invoiceUrl = loc[p].invoiceUrl]
    /\ last' = [Step("generateInvoice") EXCEPT
                   !.done = TRUE, !.ok = TRUE, !.orig = loc[p].orig,
                   !.pre = txns[loc[p].orig].invoiceId,
                   !.invoiceId = loc[p].invoiceId, !.invoiceUrl = loc[p].invoiceUrl]
    /\ pc' = [pc EXCEPT ![p] = "idle"]
    /\ loc' = [loc EXCEPT ![p] = NoLoc]
    /\ UNCHANGED <<plans, subs, now, allotted, granted, profile, attendance>>

\* The save rejects: generateInvoice rethrows and nothing was written.
GenerateInvoiceSaveFail(p) ==
    /\ pc[p] = "invoice_save"
    /\ last' = [Step("generateInvoice") EXCEPT
                   !.done = TRUE, !.err = "Storage", !.orig = loc[p].orig]
    /\ pc' = [pc EXCEPT ![p] = "idle"]
    /\ loc' = [loc EXCEPT ![p] = NoLoc]
    /\ UNCHANGED <<plans, subs, txns, now, allotted, granted, profile, attendance>>

\* ------------------------------------------------- subscription deletion
\* A variant of ActiveTransactions that counts payments only.
ActiveTransactionsPaymentsOnly(subId) ==
    Cardinality({t \in TxnIds : txns[t].exists /\ txns[t].subscription = subId
                                  /\ txns[t].type = "payment"
                                  /\ txns[t].status # "refunded"})

\* Transaction.countDocuments({ subscription, status: { $ne: 'refunded' } })
ActiveTransactions(subId) ==
    Cardinality({t \in TxnIds : txns[t].exists /\ txns[t].subscription = subId
                                  /\ txns[t].status # "refunded"})

\* exports.deleteSubscription, first await: Subscription.findById, 404 when
\* there is no such subscription.
DeleteSubscriptionLoad(p, s) ==
    /\ Free(p)
    /\ IF ~subs[s].exists
       THEN /\ last' = [Step("deleteSubscription") EXCEPT
                           !.done = TRUE, !.err = "NotFound", !.sub = s]
            /\ UNCHANGED <<pc, loc>>
       ELSE /\ pc' = [pc EXCEPT ![p] = "delsub_count"]
            /\ loc' = [loc EXCEPT ![p] = [NoLoc EXCEPT !.sub = s]]
            /\ last' = [Step("deleteSubscription") EXCEPT !.sub = s]
    /\ UNCHANGED <<plans, subs, txns, now, allotted, granted, profile, attendance>>

\* Second await: the count of the subscription's transactions that are not
\* refunded, 400 when there are any.
DeleteSubscriptionCount(p) ==
    /\ pc[p] = "delsub_count"
    /\ LET s == loc[p].sub
           activeTransactions == ActiveTransactions(s)
           ret == [Step("deleteSubscription") EXCEPT
                      !.sub = s, !.pre = Num(activeTransactions)]
       IN IF activeTransactions > 0
          THEN /\ last' = [ret EXCEPT !.done = TRUE, !.err = "Conflict"]
               /\ pc' = [pc EXCEPT ![p] = "idle"]
               /\ loc' = [loc EXCEPT ![p] = NoLoc]
          ELSE /\ last' = ret
               /\ pc' = [pc EXCEPT ![p] = "delsub_remove"]
               /\ UNCHANGED loc
    /\ UNCHANGED <<plans, subs, txns, now, allotted, granted, profile, attendance>>

\* Third await: subscription.remove(), then 204; a throw goes to the catch.
DeleteSubscriptionRemove(p, outcome) ==
    /\ pc[p] = "delsub_remove"
    /\ LET s == loc[p].sub
           ret == [Step("deleteSubscription") EXCEPT
                      !.done = TRUE, !.sub = s, !.pre = Num(0)]
       IN IF outcome = "removed"
          THEN /\ subs' = [subs EXCEPT ![s] = RemovedDoc]
               /\ last' = [ret EXCEPT !.ok = TRUE]
          ELSE /\ last' = [ret EXCEPT !.err = "TypeError"]
               /\ UNCHANGED subs
    /\ pc' = [pc EXCEPT ![p] = "idle"]
    /\ loc' = [loc EXCEPT ![p] = NoLoc]
    /\ UNCHANGED <<plans, txns, now, allotted, granted, profile, attendance>>

\* ------------------------------------------------------------ attendance
\* studentProfileSchema.attendanceStats: three counters, default 0.
ProfileDoc(totalSessions, attendedSessions, missedSessions) ==
    [exists |-> TRUE, totalSessions |-> totalSessions,
     attendedSessions |-> attendedSessions, missedSessions |-> missedSessions]

\* enum: ['present', 'absent', 'late', 'excused']
AttendanceStatuses == {"present", "absent", "late", "excused"}

\* exports.createStudent: StudentProfile.create(req.body), the counters at
\* their defaults.
CreateStudent ==
    /\ profile = NoDoc
    /\ profile' = ProfileDoc(0, 0, 0)
    /\ last' = [Step("createStudent") EXCEPT !.done = TRUE, !.ok = TRUE]
    /\ UNCHANGED <<plans, subs, txns, now, pc, loc, allotted, granted, attendance>>

\* An Attendance document of the student is saved (Attendance.create); its
\* post('save') hook starts and waits for StudentProfile.findOne.
AttendanceSave(p, status) ==
    /\ Free(p)
    /\ Len(attendance) < MaxAttendance
    /\ attendance' = Append(attendance, status)
    /\ pc' = [pc EXCEPT ![p] = "attendance_find"]
    /\ loc' = [loc EXCEPT ![p] = [NoLoc EXCEPT !.status = status]]
    /\ last' = [Step("attendanceSave") EXCEPT !.status = status]
    /\ UNCHANGED <<plans, subs, txns, now, allotted, granted, profile>>

\* The hook on the profile it loaded: totalSessions += 1, then
\* attendedSessions += 1 for 'present' and 'late', missedSessions += 1
\* otherwise.
CountedStats(stats, status) ==
    IF status \in {"present", "late"}
    THEN [stats EXCEPT !.totalSessions = @ + 1, !.attendedSessions = @ + 1]
    ELSE [stats EXCEPT !.totalSessions = @ + 1, !.missedSessions = @ + 1]

\* The hook after findOne: without a profile it returns; with one it counts
\* on the loaded document and waits for studentProfile.save().
AttendanceFind(p) ==
    /\ pc[p] = "attendance_find"
    /\ IF ~profile.exists
       THEN /\ pc' = [pc EXCEPT ![p] = "idle"]
            /\ loc' = [loc EXCEPT ![p] = NoLoc]
            /\ last' = [Step("attendanceSave") EXCEPT
                           !.done = TRUE, !.ok = TRUE, !.status = loc[p].status]
       ELSE /\ pc' = [pc EXCEPT ![p] = "attendance_stats"]
            /\ loc' = [loc EXCEPT ![p].stats = <<CountedStats(profile, loc[p].status)>>]
            /\ last' = [Step("attendanceSave") EXCEPT !.status = loc[p].status]
    /\ UNCHANGED <<plans, subs, txns, now, allotted, granted, profile, attendance>>

\* studentProfile.save() writes the paths the hook modified: totalSessions
\* and one of attendedSessions and missedSessions.
AttendanceProfileSave(p) ==
    /\ pc[p] = "attendance_stats"
    /\ LET stats == Val(loc[p].stats)
       IN profile' =
              IF loc[p].status \in {"present", "late"}
              THEN [profile EXCEPT !.totalSessions = stats.totalSessions,
                                   !.attendedSessions = stats.attendedSessions]
              ELSE [profile EXCEPT !.totalSessions = stats.totalSessions,
                                   !.missedSessions = stats.missedSessions]
    /\ pc' = [pc EXCEPT ![p] = "idle"]
    /\ loc' = [loc EXCEPT ![p] = NoLoc]
    /\ last' = [Step("attendanceSave") EXCEPT
                   !.done = TRUE, !.ok = TRUE, !.status = loc[p].status]
    /\ UNCHANGED <<plans, subs, txns, now, allotted, granted, attendance>>

\* ---------------------------------------------------------- specification
\* The requests, grouped by what they write. A ...Start action is a whole
\* request or the first step of one; a ...Step action continues a request that
\* is waiting on the store.
PriceInputs == {MaxPrice}

StatusPatches == [field : {"status"}, value : SubscriptionStatuses]

\* The types a createTransaction body names here.
PaymentTypeInputs == {"payment", "adjustment"}

Catalog ==
    \E price \in PriceInputs, m \in MaxSessionsInputs, d \in DurationInputs :
        CreatePlan(price, m, d)

EntitlementStart(patches) ==
    \/ \E pl \in PlanIds, st \in StartInputs, r \in RemainingInputs :
            CreateSubscription(pl, st, r)
    \/ \E s \in SubIds, patch \in patches : UpdateSubscription(s, patch)
    \/ Tick
    \/ \E p \in Procs, s \in SubIds : DeductSessionLoad(p, s)

EntitlementStep == \E p \in Procs : DeductSessionSave(p)

Subscribe == \E pl \in PlanIds : CreateSubscription(pl, Null, Null)

PaymentStart ==
    \/ \E s \in SubIds, patch \in StatusPatches : UpdateSubscription(s, patch)
    \/ \E p \in Procs, s \in SubIds : CreateTransactionLoad(p, s)

\* Creates whose generated transactionId is not yet stored.
PaymentCreate(types) ==
    \E p \in Procs, type \in types, r \in UnusedRands, o \in CreateOutcomes :
        CreateTransactionCreate(p, type, Null, r, o)

PaymentStep ==
    \/ \E p \in Procs : CreateTransactionSave(p)
    \/ \E p \in Procs : CreateTransactionSaveFail(p)

RefundStart ==
    \E p \in Procs, key \in TransactionIds, a \in RefundInputs :
        ProcessRefundLoad(p, key, a)

RefundFinish ==
    \/ \E p \in Procs : ProcessRefundSave(p)
    \/ \E p \in Procs : ProcessRefundSaveFail(p)

RefundStep ==
    \/ \E p \in Procs, r \in UnusedRands, o \in CreateOutcomes :
            ProcessRefundCreate(p, r, o)
    \/ RefundFinish

\* Session deduction against the subscription lifecycle (creation, status
\* changes, the clock), requests interleaved.
NextEntitlement == Catalog \/ EntitlementStart(StatusPatches) \/ EntitlementStep

SpecEntitlement == Init /\ [][NextEntitlement]_vars

\* The same requests and the corrections of remainingSessions, one at a time:
\* a request starts only when none is waiting.
NextSequential ==
    \/ AllIdle /\ Catalog
    \/ AllIdle /\ EntitlementStart(SubscriptionPatches)
    \/ EntitlementStep

SpecSequential == Init /\ [][NextSequential]_vars

\* Payments against the subscription lifecycle, one request at a time.
NextPayment ==
    \/ AllIdle /\ Catalog
    \/ AllIdle /\ Subscribe
    \/ AllIdle /\ PaymentStart
    \/ PaymentCreate(PaymentTypeInputs)
    \/ PaymentStep

SpecPayment == Init /\ [][NextPayment]_vars

RefundSetup ==
    \/ Catalog
    \/ Subscribe
    \/ \E p \in Procs, s \in SubIds : CreateTransactionLoad(p, s)

\* Refunds of the payments recorded against a subscription, requests
\* interleaved.
NextRefund ==
    \/ RefundSetup
    \/ PaymentCreate({"payment"})
    \/ RefundStart
    \/ RefundStep

SpecRefund == Init /\ [][NextRefund]_vars

\* The same requests one at a time.
NextSequentialRefund ==
    \/ AllIdle /\ RefundSetup
    \/ AllIdle /\ RefundStart
    \/ PaymentCreate({"payment"})
    \/ RefundStep

SpecSequentialRefund == Init /\ [][NextSequentialRefund]_vars

ReadPatches == StatusPatches \cup DatePatches

ReadStart ==
    \/ \E s \in SubIds, patch \in ReadPatches : UpdateSubscription(s, patch)
    \/ Tick
    \/ \E p \in Procs, s \in SubIds : ReadLoad(p, s)

ReadStep ==
    \/ \E p \in Procs, m \in ReadMethods : ReadEval(p, m)
    \/ \E p \in Procs : ReadDone(p)

\* Reads of a subscription against its lifecycle, one request at a time.
NextReads ==
    \/ AllIdle /\ Catalog
    \/ AllIdle /\ \E pl \in PlanIds, r \in RemainingInputs : CreateSubscription(pl, Null, r)
    \/ AllIdle /\ ReadStart
    \/ ReadStep

SpecReads == Init /\ [][NextReads]_vars

\* Payments and refunds with every transactionId a body can carry and every
\* number the hook can draw, one request at a time and within one reading of
\* the clock (ids generated at different times differ in their first part).
NextLedgerIds ==
    \/ AllIdle /\ \E d \in DurationInputs : CreatePlan(MaxPrice, Null, d)
    \/ AllIdle /\ Subscribe
    \/ AllIdle /\ \E p \in Procs, s \in SubIds : CreateTransactionLoad(p, s)
    \/ AllIdle /\ \E p \in Procs, r \in Rands :
                      ProcessRefundLoad(p, TransactionIdOf(now, r), Null)
    \/ \E p \in Procs, b \in BodyIdInputs, r \in Rands, o \in CreateOutcomes :
            CreateTransactionCreate(p, "payment", b, r, o)
    \/ \E p \in Procs, r \in Rands, o \in CreateOutcomes : ProcessRefundCreate(p, r, o)
    \/ RefundFinish

SpecLedgerIds == Init /\ [][NextLedgerIds]_vars

DeletePlanStart == \E p \in Procs, pl \in PlanIds : DeletePlanLoad(p, pl)

DeletePlanStep ==
    \/ \E p \in Procs : DeletePlanCount(p)
    \/ \E p \in Procs, o \in RemoveOutcomes : DeletePlanRemove(p, o)

\* The plan catalog against subscriptions and payments, requests interleaved.
NextCatalog ==
    \/ Catalog
    \/ Subscribe
    \/ PaymentStart
    \/ PaymentCreate({"payment"})
    \/ PaymentStep
    \/ DeletePlanStart
    \/ DeletePlanStep

SpecCatalog == Init /\ [][NextCatalog]_vars

\* The same requests one at a time.
NextSequentialCatalog ==
    \/ AllIdle /\ Catalog
    \/ AllIdle /\ Subscribe
    \/ AllIdle /\ PaymentStart
    \/ AllIdle /\ DeletePlanStart
    \/ PaymentCreate({"payment"})
    \/ PaymentStep
    \/ DeletePlanStep

SpecSequentialCatalog == Init /\ [][NextSequentialCatalog]_vars

\* Session deduction alone, requests interleaved: subscriptions of every
\* starting balance and the deductSession calls on them.
NextDeductRace ==
    \/ \E m \in MaxSessionsInputs, d \in DurationInputs : CreatePlan(MaxPrice, m, d)
    \/ \E pl \in PlanIds, r \in RemainingInputs : CreateSubscription(pl, Null, r)
    \/ \E p \in Procs, s \in SubIds : DeductSessionLoad(p, s)
    \/ \E p \in Procs : DeductSessionSave(p)

SpecDeductRace == Init /\ [][NextDeductRace]_vars

\* Creates that draw the smallest number not yet in a stored transactionId.
FreshPayment ==
    /\ UnusedRands # {}
    /\ \E p \in Procs, o \in CreateOutcomes :
           CreateTransactionCreate(p, "payment", Null, Min(UnusedRands), o)

FreshRefund ==
    /\ UnusedRands # {}
    /\ \E p \in Procs, o \in CreateOutcomes : ProcessRefundCreate(p, Min(UnusedRands), o)

\* The transactionIds a request names here: those stored and one that is not.
KnownKeys ==
    {txns[t].transactionId : t \in {i \in TxnIds : txns[i].exists}}
        \cup {TransactionIdOf(now, MaxRand)}

\* Full refunds.
RefundKnown == \E p \in Procs, key \in KnownKeys : ProcessRefundLoad(p, key, Null)

InvoiceStart == \E p \in Procs, key \in KnownKeys : GenerateInvoiceLoad(p, key)

InvoiceStep ==
    \/ \E p \in Procs : GenerateInvoiceSave(p)
    \/ \E p \in Procs : GenerateInvoiceSaveFail(p)

\* Invoices of the payments and refunds recorded against a subscription, one
\* request at a time.
NextInvoices ==
    \/ AllIdle /\ \E d \in DurationInputs : CreatePlan(MaxPrice, Null, d)
    \/ AllIdle /\ Subscribe
    \/ AllIdle /\ \E p \in Procs, s \in SubIds : CreateTransactionLoad(p, s)
    \/ AllIdle /\ RefundKnown
    \/ AllIdle /\ InvoiceStart
    \/ FreshPayment
    \/ FreshRefund
    \/ RefundFinish
    \/ InvoiceStep

SpecInvoices == Init /\ [][NextInvoices]_vars

DeleteSubscriptionStart == \E p \in Procs, s \in SubIds : DeleteSubscriptionLoad(p, s)

DeleteSubscriptionStep ==
    \/ \E p \in Procs : DeleteSubscriptionCount(p)
    \/ \E p \in Procs, o \in RemoveOutcomes : DeleteSubscriptionRemove(p, o)

\* Deletion of a subscription against its payments and refunds, one request at
\* a time.
NextSequentialDeletion ==
    \/ AllIdle /\ \E d \in DurationInputs : CreatePlan(MaxPrice, Null, d)
    \/ AllIdle /\ Subscribe
    \/ AllIdle /\ \E p \in Procs, s \in SubIds : CreateTransactionLoad(p, s)
    \/ AllIdle /\ RefundKnown
    \/ AllIdle /\ DeleteSubscriptionStart
    \/ FreshPayment
    \/ FreshRefund
    \/ RefundFinish
    \/ DeleteSubscriptionStep

SpecSequentialDeletion == Init /\ [][NextSequentialDeletion]_vars

\* The createPlan bodies tried: name missing or one of two, price.amount
\* missing, negative, 0 or positive, duration.value 0 or 1, sportCategories
\* empty, holding null or holding one category.
PlanBodies ==
    {PlanBody(n, a, v, c, <<>>) :
        n \in {Null, <<"basic">>, <<"pro">>},
        a \in {Null, Num(0 - 1), Num(0), Num(MaxPrice)},
        v \in {Num(0), Num(1)},
        c \in {<<>>, <<Null>>, <<Num(1)>>}}

\* The plan catalog on its own: createPlan with every body.
NextPlans == \E body \in PlanBodies : CreatePlanBody(body)

SpecPlans == Init /\ [][NextPlans]_vars

\* price.amount of the worked example of getDiscountedPrice.
ExamplePrice == 200

DiscountCodes == {"SAVE10", "VIP"}

\* The discounts tried: one code; percentage at its limits, 10 and beyond
\* the maximum; validUntil unset or the clock's first reading; maxUses unset,
\* 0 or 1, with currentUses 0 or 1.
DiscountInputs ==
    {DiscountDoc("SAVE10", Num(pct), v, m, c) :
        pct \in {0, 10, 100, 101}, v \in {Null, Num(0)},
        m \in {Null, Num(0), Num(1)}, c \in {0, 1}}

DiscountBodies ==
    {PlanBody(<<"basic">>, Num(a), Num(1), <<Num(1)>>, ds) :
        a \in {MaxPrice, ExamplePrice},
        ds \in {<<>>} \cup {<<d>> : d \in DiscountInputs}}

\* A plan with discounts, the clock, and the two discount methods.
NextDiscounts ==
    \/ FreePlanIds = PlanSlots /\ \E body \in DiscountBodies : CreatePlanBody(body)
    \/ Tick
    \/ \E pl \in PlanSlots, code \in DiscountCodes : CheckDiscount(pl, code)
    \/ \E pl \in PlanSlots, code \in DiscountCodes : QuoteDiscount(pl, code)

SpecDiscounts == Init /\ [][NextDiscounts]_vars

\* Attendance of a student who has a profile, the saves interleaved.
NextAttendance ==
    \/ CreateStudent
    \/ profile.exists /\ \E p \in Procs, st \in AttendanceStatuses : AttendanceSave(p, st)
    \/ \E p \in Procs : AttendanceFind(p)
    \/ \E p \in Procs : AttendanceProfileSave(p)

SpecAttendance == Init /\ [][NextAttendance]_vars

\* ------------------------------------------------------------------ claims
\* C1: under any interleaving, the deductSession calls that report success on a
\* subscription never outnumber the sessions it was allotted (with one session
\* left, two simultaneous calls give one success and one failure).
C1_GrantedWithinAllotment ==
    \A s \in SubIds :
        (subs[s].exists /\ allotted[s] # Null) => granted[s] <= Val(allotted[s])

\* C2: with the calls made one after another, remainingSessions is the
\* allotment less the number of successful deductSession calls, and a call
\* that finds 0 reports failure and leaves 0 stored.
C2_SequentialDeduction ==
    /\ \A s \in SubIds :
           (subs[s].exists /\ allotted[s] # Null) =>
               subs[s].remainingSessions = Num(Val(allotted[s]) - granted[s])
    /\ (last.act = "deductSession" /\ last.done /\ last.pre = Num(0)) =>
           (~last.ok /\ subs[last.sub].remainingSessions = Num(0))

C2_Witness ==
    /\ last.act = "deductSession" /\ last.done /\ ~last.ok /\ last.pre = Num(0)
    /\ granted[last.sub] >= 2
    /\ allotted[last.sub] = Num(granted[last.sub])

\* C3: deductSession decrements remainingSessions only on a subscription that
\* is active (isActive: status active, within its dates); on a cancelled,
\* expired or lapsed one it is rejected.
C3_InactiveNeverDeducted ==
    (last.act = "deductSession" /\ last.done /\ last.ok /\ last.pre # Null)
        => last.live

\* The refund rows stored against an original transaction, and their total.
RefundsOf(t) ==
    {r \in TxnIds : txns[r].exists /\ txns[r].type = "refund"
                     /\ txns[r].refundedTransaction = t}

RECURSIVE SumAmounts(_)
SumAmounts(rows) ==
    IF rows = {} THEN 0
    ELSE LET r == CHOOSE x \in rows : TRUE
         IN txns[r].amount + SumAmounts(rows \ {r})

C6_FailedRefundWritesNothing ==
    [][(last'.act = "processRefund" /\ AllIdle) =>
          LET o == last'.orig
              a == last'.arg
              mustFail == \/ o = 0
                          \/ o # 0 /\ txns[o].status # "completed"
                          \/ o # 0 /\ a # Null /\ Val(a) > txns[o].amount
          IN /\ mustFail => (last'.done /\ ~last'.ok)
             /\ (last'.done /\ ~last'.ok) =>
                    (txns' = txns /\ subs' = subs /\ plans' = plans)]_vars

C6_Witness ==
    /\ last.act = "processRefund" /\ last.done /\ ~last.ok
    /\ last.err = "Validation"
    /\ last.orig # 0 /\ txns[last.orig].status = "completed"

C9_ActiveHasCompletedPayment ==
    \A s \in SubIds :
        (subs[s].exists /\ subs[s].status = "active") =>
            \E t \in TxnIds :
                /\ txns[t].exists /\ txns[t].subscription = s
                /\ txns[t].type = "payment" /\ txns[t].status = "completed"

C11_RemainingFromPlan ==
    (last.act = "createSubscription" /\ last.done /\ last.ok /\ last.arg = Null) =>
        subs[last.sub].remainingSessions = plans[last.plan].maxSessions

\* C12: createSubscription yields endDate = startDate advanced by the plan's
\* duration, so endDate is strictly later than startDate.
C12_EndDateAdvanced ==
    (last.act = "createSubscription" /\ last.done /\ last.ok) =>
        LET doc == subs[last.sub]
        IN /\ doc.endDate = Num(HookEndDate(plans[last.plan], Val(doc.startDate)))
           /\ Val(doc.endDate) > Val(doc.startDate)

\* C13: on a subscription whose remainingSessions is null deductSession
\* reports success, and it leaves remainingSessions null and every other
\* stored field as it was.
C13_UnlimitedDeductIsNoOp ==
    [][(last'.act = "deductSession" /\ last'.pre = Null) =>
          /\ last'.done /\ last'.ok
          /\ subs'[last'.sub].remainingSessions = Null
          /\ subs' = subs /\ plans' = plans /\ txns' = txns]_vars

C13_Witness ==
    /\ last.act = "deductSession" /\ last.done /\ last.ok /\ last.pre = Null
    /\ subs[last.sub].exists /\ subs[last.sub].remainingSessions = Null
    /\ subs[last.sub].status = "active"

\* C14: isActive is true exactly when status is active, startDate <= now <=
\* endDate and remainingSessions is null or above 0; a subscription whose status
\* is still active but whose endDate has passed is reported as not active.
C14_IsActiveComputed ==
    (last.act = "isActive") =>
        (last.ok <=>
            /\ last.status = "active"
            /\ Val(last.startDate) <= now /\ now <= Val(last.endDate)
            /\ (last.pre = Null \/ Val(last.pre) > 0))

C14_Witness ==
    /\ last.act = "isActive" /\ ~last.ok
    /\ last.status = "active" /\ subs[last.sub].status = "active"
    /\ last.endDate = subs[last.sub].endDate /\ now > Val(last.endDate)
    /\ Val(last.startDate) <= now
    /\ last.pre = Null

\* C15: canBeCancelled is true exactly when the subscription's status is
\* active or pending.
C15_CancellableWhenActiveOrPending ==
    (last.act = "canBeCancelled") =>
        (last.ok <=> last.status \in {"active", "pending"})

\* C16: canBeRenewed is true exactly when the status is active or expired and
\* now is within 30 days of endDate, before or after.
C16_RenewableWithinWindow ==
    (last.act = "canBeRenewed") =>
        (last.ok <=>
            /\ last.status \in {"active", "expired"}
            /\ Val(last.endDate) - RenewalWindow <= now
            /\ now <= Val(last.endDate) + RenewalWindow)

C19_DeletePlanOutcome ==
    [][(last'.act = "deletePlan" /\ last'.done) =>
          LET planId == last'.plan
              unchanged == plans' = plans /\ subs' = subs /\ txns' = txns
          IN CASE ~plans[planId].exists -> last'.err = "NotFound" /\ unchanged
               [] plans[planId].exists /\ ActiveSubscriptions(planId) > 0 ->
                      last'.err = "Conflict" /\ unchanged
               [] OTHER ->
                      /\ last'.ok /\ ~plans'[planId].exists
                      /\ subs' = subs /\ txns' = txns]_vars

C17_ReadsNeverMutate ==
    [][(last'.act \in ReadMethods) =>
          /\ \A p \in Procs : pc[p] = "read" => MemDoc(loc'[p]) = MemDoc(loc[p])
          /\ subs' = subs
          /\ (last.act = last'.act) =>
                 (last'.ok = last.ok /\ last'.arg = last.arg)]_vars

C29_RefundLeavesSubscriptions ==
    [][last'.act = "processRefund" => subs' = subs]_vars

C29_Witness ==
    /\ last.act = "processRefund" /\ last.done /\ last.ok
    /\ txns[last.orig].status = "refunded"
    /\ txns[last.txn].amount = txns[last.orig].amount
    /\ subs[txns[last.orig].subscription].status = "active"
    /\ subs[txns[last.orig].subscription].paymentStatus # "refunded"

C28_NoOrphanedTransactions ==
    \A t \in TxnIds : txns[t].exists => subs[txns[t].subscription].exists

\* A deletion refused although every payment of the subscription is refunded.
C28_Witness ==
    /\ last.act = "deleteSubscription" /\ last.done /\ last.err = "Conflict"
    /\ \E t \in TxnIds : txns[t].exists /\ txns[t].subscription = last.sub
                             /\ txns[t].type = "payment"
    /\ \A t \in TxnIds :
           (txns[t].exists /\ txns[t].type = "payment") => txns[t].status = "refunded"

\* C27: the remainingSessions of a stored subscription changes only in a step
\* of updateSubscription (the admin correction) or in a step of deductSession
\* that lowers it from one number to a smaller one; no other step raises it
\* or moves it between null and a number.
C27_RemainingOnlyDecreases ==
    [][\A s \in SubIds :
          (subs[s].exists /\ subs'[s].exists
             /\ subs'[s].remainingSessions # subs[s].remainingSessions) =>
              \/ last'.act = "updateSubscription"
              \/ /\ last'.act = "deductSession"
                 /\ subs[s].remainingSessions # Null
                 /\ subs'[s].remainingSessions # Null
                 /\ Val(subs'[s].remainingSessions) < Val(subs[s].remainingSessions)]_vars

\* C21: createPlan stores a plan only if its name is not that of a stored
\* plan, price.amount >= 0, duration.value >= 1 and the body names at least
\* one sport category; with any other body it fails and the stored plans
\* are unchanged.
C21_CreatePlanValidates ==
    [][(last'.act = "createPlan" /\ last'.done /\ last'.body # Null) =>
          LET b == Val(last'.body)
              acceptable ==
                  /\ b.name # Null
                  /\ ~\E i \in PlanSlots : plans[i].exists /\ plans[i].name = b.name
                  /\ b.amount # Null /\ Val(b.amount) >= 0
                  /\ b.duration.value # Null /\ Val(b.duration.value) >= 1
                  /\ Len(b.sportCategories) >= 1
                  /\ \A i \in 1..Len(b.sportCategories) : b.sportCategories[i] # Null
          IN acceptable \/ (~last'.ok /\ plans' = plans)]_vars

\* C22: isDiscountValid returns true exactly when the plan has a discount
\* with the code whose validUntil, if set, has not passed and whose
\* currentUses is below maxUses whenever maxUses is set, 0 included.
C22_DiscountValidIff ==
    (last.act = "isDiscountValid") =>
        (last.valid <=>
            \E i \in 1..Len(plans[last.plan].discounts) :
                LET d == plans[last.plan].discounts[i]
                IN /\ d.code = Val(last.code)
                   /\ (d.validUntil = Null \/ ~(now > Val(d.validUntil)))
                   /\ (d.maxUses = Null \/ d.currentUses < Val(d.maxUses)))

C30_AttendanceCountersConsistent ==
    (profile.exists /\ AllIdle) =>
        /\ profile.totalSessions = profile.attendedSessions + profile.missedSessions
        /\ profile.totalSessions = Len(attendance)
====
